---- MODULE Spec2Model ----
(***************************************************************************)
(* Mini Audit Trail Generator: the Express backend (backend/index.js).     *)
(*                                                                         *)
(* The module models                                                       *)
(*   - the word differ (extractWords, findAddedWords, findRemovedWords)    *)
(*     with JavaScript's semantics for the plain-object count maps;        *)
(*   - the JSON file store (ensureDataFile, readData, writeData);          *)
(*   - the request handlers POST /save-version, GET /versions, GET /health *)
(*     as they run on Node's event loop.                                   *)
(*                                                                         *)
(* A text is a sequence of one-character strings, a word is a non-empty    *)
(* sequence of non-whitespace characters.                                  *)
(***************************************************************************)
EXTENDS Integers, Sequences, FiniteSets, TLC

VARIABLES
    listening,     \* app.listen's callback has run
    file,          \* data/versions.json: Absent, or the parsed JSON document
    now,           \* the wall clock, in ticks
    nextId,        \* the identifier source behind uuidv4()
    inflight,      \* save requests received and not yet dispatched to the handler
    nreq,          \* requests handled so far
    accepted,      \* save requests answered 201 so far
    req,           \* the request handled last
    resp,          \* the response sent last
    oldWords,      \* differ: the old word sequence
    newWords,      \* differ: the new word sequence
    addedWords,    \* differ: result of findAddedWords
    removedWords,  \* differ: result of findRemovedWords
    backAdded,     \* differ: result of findAddedWords with the sequences exchanged
    backRemoved,   \* differ: result of findRemovedWords with the sequences exchanged
    dpc            \* differ: "input" before the call, "done" after

vars == <<listening, file, now, nextId, inflight, nreq, accepted, req, resp,
          oldWords, newWords, addedWords, removedWords, backAdded, backRemoved, dpc>>

storeVars == <<listening, file, now, nextId, inflight, nreq, accepted, req, resp>>
diffVars == <<oldWords, newWords, addedWords, removedWords, backAdded, backRemoved, dpc>>

(***************************************************************************)
(* Bounds                                                                  *)
(***************************************************************************)
\* longest word sequence handed to the differ
MaxWords == 3
\* longest text a request carries, in characters
MaxTextLen == 2
\* requests handled in one run of a client sending any body
MaxRequests == 2
\* save requests in one run with the clock running or with requests overlapping
MaxSaves == 3
\* last clock tick
MaxClock == 2
\* clock ticks in one minute
TicksPerMinute == 2
\* longest run of whitespace between two words
MaxRun == 2
\* longest run of whitespace before the first word
MaxEdge == 1
\* save requests that may be in flight together
MaxInflight == 2

(***************************************************************************)
(* JavaScript values                                                       *)
(***************************************************************************)
\* One record shape for every value: t is the type tag, n the number (or, for
\* "fnstr", the number of "1"s appended), s the characters of a string.
JsVal(t, n, s) == [t |-> t, n |-> n, s |-> s]

Undefined == JsVal("undefined", 0, <<>>)
Null == JsVal("null", 0, <<>>)
NaN == JsVal("NaN", 0, <<>>)
Num(n) == JsVal("number", n, <<>>)
Str(s) == JsVal("string", 0, s)
\* Object.prototype.constructor, the function Object
ObjectFn == JsVal("function", 0, <<>>)
\* the string "function Object() { [native code] }" followed by n "1"s
FnStr(n) == JsVal("fnstr", n, <<>>)

\* ToBoolean
Truthy(v) ==
    CASE v.t = "undefined" -> FALSE
      [] v.t = "null" -> FALSE
      [] v.t = "NaN" -> FALSE
      [] v.t = "number" -> v.n # 0
      [] v.t = "string" -> Len(v.s) > 0
      [] OTHER -> TRUE

\* a || b
JsOr(a, b) == IF Truthy(a) THEN a ELSE b

\* a === b
StrictEq(a, b) == a.t # "NaN" /\ a = b

\* v + 1: numeric addition, or string concatenation once v is not a number
PlusOne(v) ==
    CASE v.t = "number" -> Num(v.n + 1)
      [] v.t = "function" -> FnStr(1)
      [] v.t = "fnstr" -> FnStr(v.n + 1)
      [] OTHER -> NaN

\* ToPrimitive of the count values: a function becomes its source string
ToPrim(v) == IF v.t = "function" THEN FnStr(0) ELSE v

\* a > b: numbers by value, two strings by code units, anything else via NaN
JsGt(a, b) ==
    LET pa == ToPrim(a)
        pb == ToPrim(b)
    IN  CASE pa.t = "number" /\ pb.t = "number" -> pa.n > pb.n
          [] pa.t = "fnstr" /\ pb.t = "fnstr" -> pa.n > pb.n
          [] OTHER -> FALSE

\* a - b: ToNumber of a non-numeric string is NaN
JsMinus(a, b) ==
    IF a.t = "number" /\ b.t = "number" THEN Num(a.n - b.n) ELSE NaN

\* i < v for a number i
JsLt(i, v) == v.t = "number" /\ i < v.n

(***************************************************************************)
(* Words and characters                                                    *)
(***************************************************************************)
\* /\s/: the characters String.prototype.trim and the split pattern treat alike
Whitespace == {" ", "\t"}

\* the word "constructor": a property every plain object inherits
ConstructorWord == <<"c", "o", "n", "s", "t", "r", "u", "c", "t", "o", "r">>

\* names found on Object.prototype (the one the model's inputs use)
ProtoKeys == {ConstructorWord}

\* words the differ is exercised with
DiffWords == {<<"a">>, <<"b">>, ConstructorWord}

SeqsUpTo(S, n) == UNION {[1..k -> S] : k \in 0..n}

WordSeqs == SeqsUpTo(DiffWords, MaxWords)

(***************************************************************************)
(* findAddedWords / findRemovedWords                                       *)
(***************************************************************************)
\* {}: an object with no own property
EmptyObject == [w \in {} |-> Undefined]

\* obj[word]: the own property, else what Object.prototype provides
GetProp(obj, word) ==
    IF word \in DOMAIN obj THEN obj[word]
    ELSE IF word \in ProtoKeys THEN ObjectFn
    ELSE Undefined

\* obj[word] = value
SetProp(obj, word, value) ==
    [w \in DOMAIN obj \cup {word} |-> IF w = word THEN value ELSE obj[w]]

\* words.forEach(word => { count[word] = (count[word] || 0) + 1; })
RECURSIVE CountLoop(_, _, _)
CountLoop(words, i, count) ==
    IF i > Len(words) THEN count
    ELSE CountLoop(words, i + 1,
            SetProp(count, words[i], PlusOne(JsOr(GetProp(count, words[i]), Num(0)))))

WordCount(words) == CountLoop(words, 1, EmptyObject)

\* for (let i = 0; i < bound; i++) out.push(word)
RECURSIVE PushLoop(_, _, _, _)
PushLoop(out, word, i, bound) ==
    IF JsLt(i, bound) THEN PushLoop(Append(out, word), word, i + 1, bound) ELSE out

\* the third forEach of findAddedWords, over newWords
RECURSIVE AddedLoop(_, _, _, _, _, _)
AddedLoop(words, i, oldWordCount, newWordCount, processedWords, out) ==
    IF i > Len(words) THEN out
    ELSE LET word == words[i]
             oldCount == JsOr(GetProp(oldWordCount, word), Num(0))
             newCount == JsOr(GetProp(newWordCount, word), Num(0))
         IN  IF word \in processedWords
             THEN AddedLoop(words, i + 1, oldWordCount, newWordCount, processedWords, out)
             ELSE AddedLoop(words, i + 1, oldWordCount, newWordCount,
                            processedWords \cup {word},
                            IF JsGt(newCount, oldCount)
                            THEN PushLoop(out, word, 0, JsMinus(newCount, oldCount))
                            ELSE out)

findAddedWords(oldW, newW) ==
    AddedLoop(newW, 1, WordCount(oldW), WordCount(newW), {}, <<>>)

\* the third forEach of findRemovedWords, over oldWords
RECURSIVE RemovedLoop(_, _, _, _, _, _)
RemovedLoop(words, i, oldWordCount, newWordCount, processedWords, out) ==
    IF i > Len(words) THEN out
    ELSE LET word == words[i]
             oldCount == JsOr(GetProp(oldWordCount, word), Num(0))
             newCount == JsOr(GetProp(newWordCount, word), Num(0))
         IN  IF word \in processedWords
             THEN RemovedLoop(words, i + 1, oldWordCount, newWordCount, processedWords, out)
             ELSE RemovedLoop(words, i + 1, oldWordCount, newWordCount,
                              processedWords \cup {word},
                              IF JsGt(oldCount, newCount)
                              THEN PushLoop(out, word, 0, JsMinus(oldCount, newCount))
                              ELSE out)

\* findRemovedWords with the two count maps exchanged
findRemovedWords_swappedCounts(oldW, newW) ==
    RemovedLoop(oldW, 1, WordCount(newW), WordCount(oldW), {}, <<>>)

findRemovedWords(oldW, newW) ==
    RemovedLoop(oldW, 1, WordCount(oldW), WordCount(newW), {}, <<>>)

(***************************************************************************)
(* extractWords                                                            *)
(***************************************************************************)
\* characters request texts are made of
Chars == {"a", " ", "\t"}

\* String.prototype.trim: drop leading and trailing whitespace
RECURSIVE TrimStart(_)
TrimStart(s) ==
    IF s # <<>> /\ Head(s) \in Whitespace THEN TrimStart(Tail(s)) ELSE s

RECURSIVE TrimEnd(_)
TrimEnd(s) ==
    IF s # <<>> /\ s[Len(s)] \in Whitespace THEN TrimEnd(SubSeq(s, 1, Len(s) - 1)) ELSE s

Trim(s) == TrimEnd(TrimStart(s))

\* the index of the first non-whitespace character at or after i (Len(s) + 1 if none)
RECURSIVE SkipWhitespace(_, _)
SkipWhitespace(s, i) ==
    IF i <= Len(s) /\ s[i] \in Whitespace THEN SkipWhitespace(s, i + 1) ELSE i

\* String.prototype.split(/\s+/): the pieces between whitespace runs, empty ones kept
RECURSIVE SplitLoop(_, _, _, _)
SplitLoop(s, i, piece, out) ==
    IF i > Len(s) THEN Append(out, piece)
    ELSE IF s[i] \in Whitespace
         THEN SplitLoop(s, SkipWhitespace(s, i), <<>>, Append(out, piece))
         ELSE SplitLoop(s, i + 1, Append(piece, s[i]), out)

SplitWhitespace(s) == SplitLoop(s, 1, <<>>, <<>>)

\* Array.prototype.filter(word => word.length > 0)
RECURSIVE FilterNonEmpty(_)
FilterNonEmpty(pieces) ==
    IF pieces = <<>> THEN <<>>
    ELSE IF Len(Head(pieces)) > 0
         THEN <<Head(pieces)>> \o FilterNonEmpty(Tail(pieces))
         ELSE FilterNonEmpty(Tail(pieces))

\* extractWords without the filter: the empty piece of an all-whitespace text stays
extractWords_noFilter(text) ==
    IF ~Truthy(text) \/ text.t # "string" THEN <<>>
    ELSE SplitWhitespace(Trim(text.s))

extractWords(text) ==
    IF ~Truthy(text) \/ text.t # "string" THEN <<>>
    ELSE FilterNonEmpty(SplitWhitespace(Trim(text.s)))

(***************************************************************************)
(* generateVersionEntry                                                    *)
(***************************************************************************)
\* value.length: the number of UTF-16 units of a string; a number has no length
JsLength(value) == IF value.t = "string" THEN Num(Len(value.s)) ELSE Undefined

\* now.toISOString().slice(0, 16).replace('T', ' '): the time cut to the minute
Timestamp(clock) == clock \div TicksPerMinute

\* an identifier source that repeats itself
Uuid_repeating(counter) == 1

\* uuidv4(): a token no earlier call returned
Uuid(counter) == counter

generateVersionEntry(oldText, newText, clock, counter) ==
    LET oldW == extractWords(oldText)
        newW == extractWords(newText)
    IN  [id |-> Uuid(counter),
         timestamp |-> Timestamp(clock),
         addedWords |-> findAddedWords(oldW, newW),
         removedWords |-> findRemovedWords(oldW, newW),
         oldLength |-> JsLength(oldText),
         newLength |-> JsLength(newText)]

(***************************************************************************)
(* The JSON file store                                                     *)
(***************************************************************************)
\* no data/versions.json on disk
Absent == [exists |-> FALSE, versions |-> <<>>, currentText |-> Undefined]

\* { versions: [], currentText: '' }
EmptyStore == [exists |-> TRUE, versions |-> <<>>, currentText |-> Str(<<>>)]

\* ensureDataFile: create the file when it does not exist
ensureDataFile(f) == IF f.exists THEN f ELSE EmptyStore

\* JSON.stringify then JSON.parse of one value: NaN is written as null; a
\* property holding undefined is left out and reads back as undefined
JsonValue(v) == IF v.t = "NaN" THEN Null ELSE v

JsonEntry(e) ==
    [e EXCEPT !.oldLength = JsonValue(e.oldLength), !.newLength = JsonValue(e.newLength)]

\* readData: the parsed document
readData(f) == ensureDataFile(f)

\* writeData: the document the file holds afterwards
writeData(f, data) ==
    [exists |-> TRUE,
     versions |-> [i \in 1..Len(data.versions) |-> JsonEntry(data.versions[i])],
     currentText |-> JsonValue(data.currentText)]

(***************************************************************************)
(* Requests and responses                                                  *)
(***************************************************************************)
Strings == {Str(s) : s \in SeqsUpTo(Chars, MaxTextLen)}

\* req.body.text: a string, another JSON value, null, or no text at all
BodyTexts == Strings \cup {Num(0), Num(5), Null, Undefined}

\* texts that differ in their whitespace: two words "a" with whitespace before,
\* between (none joins them into one word) and after, and texts of whitespace alone
LeadingRuns == SeqsUpTo({" "}, MaxEdge)
MiddleRuns == SeqsUpTo(Whitespace, MaxRun)
TrailingRuns == {<<>>, <<"\t">>}

WsTexts ==
    {Str(l \o <<"a">> \o m \o <<"a">> \o r) :
        l \in LeadingRuns, m \in MiddleRuns, r \in TrailingRuns}
    \cup {Str(l \o r) : l \in LeadingRuns, r \in TrailingRuns}

\* the texts of the runs that vary the clock or the order of dispatch
FewTexts == {Str(<<>>), Str(<<"a">>), Str(<<"a", " ">>)}

\* what a call to the file system does: "none" succeeds, "read" makes readData
\* throw, "write" makes writeData throw; a call that throws has not changed
\* the file
Faults == {"none", "read", "write"}

NoEntry ==
    [id |-> 0, timestamp |-> 0, addedWords |-> <<>>, removedWords |-> <<>>,
     oldLength |-> Undefined, newLength |-> Undefined]

Response(status, body, changed, version, versions, currentText) ==
    [status |-> status, body |-> body, changed |-> changed, version |-> version,
     versions |-> versions, currentText |-> currentText]

NoResponse == Response(0, "", "absent", NoEntry, <<>>, Undefined)

\* res.status(400).json({ error: 'Text content is required' })
BadRequest == Response(400, "Text content is required", "absent", NoEntry, <<>>, Undefined)

\* res.status(500).json({ error: 'Internal server error' })
ServerError == Response(500, "Internal server error", "absent", NoEntry, <<>>, Undefined)

\* res.status(200).json({ message: 'No changes detected', changed: false })
NoChanges == Response(200, "No changes detected", "false", NoEntry, <<>>, Undefined)

\* res.status(201).json({ message: ..., changed: true, version: versionEntry })
Saved(versionEntry) ==
    Response(201, "Version saved successfully", "true", versionEntry, <<>>, Undefined)

(***************************************************************************)
(* The handlers                                                            *)
(***************************************************************************)
\* push instead of unshift: the new record goes to the end
unshift_push(versions, versionEntry) == Append(versions, versionEntry)

\* assignment instead of unshift: the new record replaces the list
unshift_replace(versions, versionEntry) == <<versionEntry>>

\* data.versions.unshift(versionEntry)
unshift(versions, versionEntry) == <<versionEntry>> \o versions

\* a check that lets null through
textMissing_undefinedOnly(text) == text = Undefined

\* text === undefined || text === null
textMissing(text) == text = Undefined \/ text = Null

\* oldText.length or newText.length throws a TypeError on null and undefined
lengthThrows(oldText, newText) ==
    oldText.t \in {"undefined", "null"} \/ newText.t \in {"undefined", "null"}

\* what one run of a handler leaves behind
Outcome(f, response, counter) == [file |-> f, resp |-> response, nextId |-> counter]

\* app.post('/save-version'): the handler from its first line to its response.
\* f is the file as the handler finds it, clock and counter the ambient clock
\* and identifier source.
saveVersion(text, fault, f, clock, counter) ==
    IF textMissing(text)
    THEN Outcome(f, BadRequest, counter)
    ELSE IF fault = "read"
    THEN Outcome(f, ServerError, counter)
    ELSE LET data == readData(f)
             oldText == JsOr(data.currentText, Str(<<>>))
             versionEntry == generateVersionEntry(oldText, text, clock, counter)
             updated == [data EXCEPT !.versions = unshift(@, versionEntry),
                                     !.currentText = text]
         IN  IF StrictEq(text, oldText)
             THEN Outcome(data, NoChanges, counter)
             ELSE IF lengthThrows(oldText, text) \/ fault = "write"
             THEN Outcome(data, ServerError, counter + 1)
             ELSE Outcome(writeData(data, updated), Saved(JsonEntry(versionEntry)),
                          counter + 1)

\* app.get('/versions')
getVersions(fault, f) ==
    IF fault = "read"
    THEN Outcome(f, ServerError, 0)
    ELSE LET data == readData(f)
         IN  Outcome(data,
                     Response(200, "", "absent", NoEntry, data.versions, data.currentText),
                     0)

\* app.get('/health')
HealthOk == Response(200, "ok", "absent", NoEntry, <<>>, Undefined)

\* App.jsx: a version with no added and no removed word is shown as
\* "Only whitespace or formatting changes"
onlyWhitespaceNote(version) ==
    Len(version.addedWords) = 0 /\ Len(version.removedWords) = 0

(***************************************************************************)
(* Actions                                                                 *)
(***************************************************************************)
\* app.listen's callback: the server starts and makes sure the file exists
Listen ==
    /\ ~listening
    /\ listening' = TRUE
    /\ file' = ensureDataFile(file)
    /\ UNCHANGED <<now, nextId, inflight, nreq, accepted, req, resp>>
    /\ UNCHANGED diffVars

\* the wall clock advances
Tick ==
    /\ now < MaxClock
    /\ now' = now + 1
    /\ UNCHANGED <<listening, file, nextId, inflight, nreq, accepted, req, resp>>
    /\ UNCHANGED diffVars

\* the event loop runs the save handler to completion on one request
RunSave(text, fault, arrivedAt) ==
    \E out \in {saveVersion(text, fault, file, now, nextId)} :
        /\ file' = out.file
        /\ nextId' = out.nextId
        /\ resp' = out.resp
        /\ req' = [kind |-> "save", text |-> text, fault |-> fault, arrivedAt |-> arrivedAt]
        /\ nreq' = nreq + 1
        /\ accepted' = IF out.resp.status = 201 THEN accepted + 1 ELSE accepted

\* POST /save-version from a client that waits for each answer
PostSaveVersion(text, fault) ==
    /\ listening
    /\ inflight = <<>>
    /\ RunSave(text, fault, nreq)
    /\ UNCHANGED <<listening, now, inflight>>
    /\ UNCHANGED diffVars

\* GET /versions
GetVersions(fault) ==
    /\ listening
    /\ \E out \in {getVersions(fault, file)} :
           /\ file' = out.file
           /\ resp' = out.resp
    /\ req' = [kind |-> "versions", text |-> Undefined, fault |-> fault, arrivedAt |-> nreq]
    /\ nreq' = nreq + 1
    /\ UNCHANGED <<listening, now, nextId, inflight, accepted>>
    /\ UNCHANGED diffVars

\* GET /health
GetHealth ==
    /\ listening
    /\ resp' = HealthOk
    /\ req' = [kind |-> "health", text |-> Undefined, fault |-> "none", arrivedAt |-> nreq]
    /\ nreq' = nreq + 1
    /\ UNCHANGED <<listening, file, now, nextId, inflight, accepted>>
    /\ UNCHANGED diffVars

\* a save request reaches the server while others may still wait for the handler
Receive(text) ==
    /\ listening
    /\ Len(inflight) < MaxInflight
    /\ nreq + Len(inflight) < MaxSaves
    /\ inflight' = Append(inflight, [text |-> text, arrivedAt |-> nreq])
    /\ UNCHANGED <<listening, file, now, nextId, nreq, accepted, req, resp>>
    /\ UNCHANGED diffVars

\* the event loop takes one waiting request and runs the handler on it; the
\* handler has no await, so no other handler runs before it returns
Dispatch(i) ==
    /\ i \in 1..Len(inflight)
    /\ RunSave(inflight[i].text, "none", inflight[i].arrivedAt)
    /\ inflight' = [j \in 1..(Len(inflight) - 1) |->
                        IF j < i THEN inflight[j] ELSE inflight[j + 1]]
    /\ UNCHANGED <<listening, now>>
    /\ UNCHANGED diffVars

\* the differ applied to one pair of word sequences, in both directions
Diff ==
    /\ dpc = "input"
    /\ addedWords' = findAddedWords(oldWords, newWords)
    /\ removedWords' = findRemovedWords(oldWords, newWords)
    /\ backAdded' = findAddedWords(newWords, oldWords)
    /\ backRemoved' = findRemovedWords(newWords, oldWords)
    /\ dpc' = "done"
    /\ UNCHANGED <<oldWords, newWords>>
    /\ UNCHANGED storeVars

(***************************************************************************)
(* Specifications                                                          *)
(***************************************************************************)
InitStore ==
    /\ listening = FALSE
    /\ file = Absent
    /\ now = 0
    /\ nextId = 1
    /\ inflight = <<>>
    /\ nreq = 0
    /\ accepted = 0
    /\ req = [kind |-> "none", text |-> Undefined, fault |-> "none", arrivedAt |-> 0]
    /\ resp = NoResponse

InitDiffIdle ==
    /\ oldWords = <<>>
    /\ newWords = <<>>
    /\ addedWords = <<>>
    /\ removedWords = <<>>
    /\ backAdded = <<>>
    /\ backRemoved = <<>>
    /\ dpc = "idle"

\* one client, one request at a time
Init == InitStore /\ InitDiffIdle

Next ==
    \/ Listen
    \/ /\ nreq < MaxRequests
       /\ \/ \E text \in BodyTexts, fault \in Faults : PostSaveVersion(text, fault)
          \/ \E fault \in Faults : GetVersions(fault)
          \/ GetHealth

Spec == Init /\ [][Next]_vars

\* clients that do not wait: save requests overlap
NextRace ==
    \/ Listen
    \/ \E text \in FewTexts : Receive(text)
    \/ \E i \in 1..MaxInflight : Dispatch(i)

SpecRace == Init /\ [][NextRace]_vars

\* one client, with the clock running between its requests
NextClock ==
    \/ Listen
    \/ Tick
    \/ nreq < MaxSaves /\ \E text \in FewTexts : PostSaveVersion(text, "none")

SpecClock == Init /\ [][NextClock]_vars

\* one client editing the whitespace of its text
NextWs ==
    \/ Listen
    \/ nreq < MaxRequests /\ \E text \in WsTexts : PostSaveVersion(text, "none")

SpecWs == Init /\ [][NextWs]_vars

\* the differ on its own
InitDiff ==
    /\ InitStore
    /\ oldWords \in WordSeqs
    /\ newWords \in WordSeqs
    /\ addedWords = <<>>
    /\ removedWords = <<>>
    /\ backAdded = <<>>
    /\ backRemoved = <<>>
    /\ dpc = "input"

NextDiff == Diff

SpecDiff == InitDiff /\ [][NextDiff]_vars

(***************************************************************************)
(* Vocabulary of the properties                                            *)
(***************************************************************************)
\* how often word w occurs in sequence q
Occurrences(q, w) == Cardinality({i \in 1..Len(q) : q[i] = w})

\* max(0, n)
Excess(n) == IF n > 0 THEN n ELSE 0

\* the position of the first occurrence of w in q
FirstAt(q, w) == CHOOSE i \in 1..Len(q) : q[i] = w /\ \A j \in 1..(i - 1) : q[j] # w

\* the copies of every word of q are next to each other
Contiguous(q) ==
    \A i, j \in 1..Len(q) :
        (i < j /\ q[i] = q[j]) => \A k \in i..j : q[k] = q[i]

\* out holds, for every word w, Excess(count in to - count in from) copies,
\* contiguous, the distinct words in the order of their first appearance in to
IsMultisetDelta(out, from, to) ==
    /\ \A w \in DiffWords :
           Occurrences(out, w) = Excess(Occurrences(to, w) - Occurrences(from, w))
    /\ Contiguous(out)
    /\ \A i, j \in 1..Len(out) :
           (i < j /\ out[i] # out[j]) => FirstAt(to, out[i]) < FirstAt(to, out[j])

\* the same words with the same multiplicities
SameMultiset(a, b) == \A w \in DiffWords : Occurrences(a, w) = Occurrences(b, w)

\* p is the tail end of q
IsSuffix(p, q) ==
    /\ Len(p) <= Len(q)
    /\ \A i \in 1..Len(p) : p[i] = q[Len(q) - Len(p) + i]

\* s with every run of whitespace replaced by one space
RECURSIVE Squash(_)
Squash(s) ==
    IF s = <<>> THEN <<>>
    ELSE IF Head(s) \in Whitespace
         THEN IF Tail(s) # <<>> /\ Head(Tail(s)) \in Whitespace
              THEN Squash(Tail(s))
              ELSE <<" ">> \o Squash(Tail(s))
         ELSE <<Head(s)>> \o Squash(Tail(s))

\* s without the one space a squashed text may start and end with
Strip(s) ==
    LET a == IF s # <<>> /\ Head(s) = " " THEN Tail(s) ELSE s
    IN  IF a # <<>> /\ a[Len(a)] = " " THEN SubSeq(a, 1, Len(a) - 1) ELSE a

\* two different strings that are alike up to leading and trailing whitespace
\* and the length and kind of the whitespace runs between words
WhitespaceOnlyChange(a, b) ==
    /\ a.t = "string"
    /\ b.t = "string"
    /\ a # b
    /\ Strip(Squash(a.s)) = Strip(Squash(b.s))

\* the step handles one save request
SaveStep == req'.kind = "save" /\ nreq' = nreq + 1

(***************************************************************************)
(* C1                                                                      *)
(***************************************************************************)
\* C1: a save request carrying a string adds exactly one record when the
\* string is not equal to the stored current snapshot, and adds none, leaves
\* the store unchanged and answers changed=false when it is equal (requests
\* cut short by a file system error aside).
C1_RecordIffDifferent ==
    [][(SaveStep /\ req'.text.t = "string" /\ resp'.status # 500)
        => IF req'.text # readData(file).currentText
           THEN Len(file'.versions) = Len(file.versions) + 1
           ELSE file' = file /\ resp'.changed = "false"]_vars

\* C1 where the stored snapshot is a string: the same statement, which holds.
C1_AmongStrings ==
    [][(SaveStep /\ req'.text.t = "string" /\ resp'.status # 500
            /\ readData(file).currentText.t = "string")
        => IF req'.text # readData(file).currentText
           THEN Len(file'.versions) = Len(file.versions) + 1
           ELSE file' = file /\ resp'.changed = "false"]_vars

(***************************************************************************)
(* C2                                                                      *)
(***************************************************************************)
\* C2: the store starts empty; an accepted save puts its record in front of
\* the version list and makes the submitted text the current snapshot; no
\* request removes, reorders or changes a record: the list before a step is
\* a suffix of the list after it.
C2_AppendOnly ==
    /\ readData(file) = EmptyStore
    /\ [][/\ IsSuffix(file.versions, file'.versions)
          /\ (SaveStep /\ resp'.status = 201)
                => /\ file'.versions = <<resp'.version>> \o file.versions
                   /\ file'.currentText = req'.text
          /\ (~SaveStep \/ resp'.status # 201) => file'.versions = file.versions]_vars

\* two accepted saves, the second in front of the first
C2_Witness ==
    /\ Len(file.versions) = 2
    /\ resp.status = 201
    /\ file.versions[1] = resp.version
    /\ file.versions[1].id # file.versions[2].id

(***************************************************************************)
(* C3                                                                      *)
(***************************************************************************)
\* C3: findAddedWords holds each word max(0, count in new - count in old)
\* times, copies together, words in the order of first appearance in new;
\* findRemovedWords likewise with old and new exchanged. Every word counts,
\* also one named like a built-in property ("constructor").
C3_MultisetDelta ==
    dpc = "done" =>
        /\ IsMultisetDelta(addedWords, oldWords, newWords)
        /\ IsMultisetDelta(removedWords, newWords, oldWords)

(***************************************************************************)
(* C4                                                                      *)
(***************************************************************************)
\* C4: both lists are empty exactly when the two sequences hold the same
\* words with the same multiplicities.
C4_EmptyIffSameMultiset ==
    dpc = "done" =>
        ((addedWords = <<>> /\ removedWords = <<>>) <=> SameMultiset(oldWords, newWords))

(***************************************************************************)
(* C5                                                                      *)
(***************************************************************************)
\* C5: the added list from A to B is the removed list from B to A, and the
\* removed list from A to B is the added list from B to A.
C5_Symmetry ==
    dpc = "done" => (addedWords = backRemoved /\ removedWords = backAdded)

\* a diff with words on both sides, one of them more than once
C5_Witness ==
    /\ dpc = "done"
    /\ Len(addedWords) >= 2
    /\ removedWords # <<>>
    /\ addedWords = backRemoved

(***************************************************************************)
(* C6                                                                      *)
(***************************************************************************)
\* C6: when the submitted text differs from the current snapshot only in
\* whitespace, both tokenize to the same words, the save is accepted, and the
\* new record has no added and no removed word.
C6_WhitespaceOnly ==
    [][(SaveStep /\ file.exists /\ WhitespaceOnlyChange(file.currentText, req'.text))
        => /\ extractWords(file.currentText) = extractWords(req'.text)
           /\ resp'.status = 201
           /\ Len(file'.versions) = Len(file.versions) + 1
           /\ file'.versions[1].addedWords = <<>>
           /\ file'.versions[1].removedWords = <<>>
           /\ onlyWhitespaceNote(file'.versions[1])]_vars

\* "a  a" (or the like) saved over "a a": a shorter run between two words
C6_Witness ==
    /\ Len(file.versions) = 2
    /\ resp.status = 201
    /\ Len(extractWords(file.currentText)) = 2
    /\ file.versions[1].addedWords = <<>>
    /\ file.versions[1].removedWords = <<>>
    /\ file.versions[1].oldLength.n > file.versions[1].newLength.n

(***************************************************************************)
(* C7                                                                      *)
(***************************************************************************)
\* the record carries an identifier handed out so far and a minute of the clock
HasIdAndTimestamp(v) ==
    v.id \in 1..(nextId - 1) /\ v.timestamp \in 0..Timestamp(MaxClock)

\* C7 as stated: every record has an id and a timestamp, and two records
\* differ in their ids and in their timestamps.
C7_DistinctIdsAndTimestamps ==
    /\ \A i \in 1..Len(file.versions) : HasIdAndTimestamp(file.versions[i])
    /\ \A i, j \in 1..Len(file.versions) :
           i # j => /\ file.versions[i].id # file.versions[j].id
                    /\ file.versions[i].timestamp # file.versions[j].timestamp

\* C7 amended: every record has an id and a timestamp, and two records
\* differ in their ids; records saved within one minute share their timestamp.
C7_DistinctIds ==
    /\ \A i \in 1..Len(file.versions) : HasIdAndTimestamp(file.versions[i])
    /\ \A i, j \in 1..Len(file.versions) :
           i # j => file.versions[i].id # file.versions[j].id

\* three records, two of them saved within the same minute
C7_Witness ==
    /\ Len(file.versions) = 3
    /\ file.versions[1].timestamp # file.versions[2].timestamp
    /\ file.versions[2].timestamp = file.versions[3].timestamp

OverlappingPairAccepted ==
    /\ nreq = 2
    /\ accepted = 2
    /\ req.arrivedAt = 0

C10_LengthChain ==
    LET vs == file.versions
    IN  vs # <<>> =>
            /\ file.currentText.t = "string"
            /\ vs[1].newLength = Num(Len(file.currentText.s))
            /\ \A i \in 1..(Len(vs) - 1) :
                   vs[i].oldLength.t = "number" /\ vs[i].oldLength = vs[i + 1].newLength
            /\ vs[Len(vs)].oldLength = Num(0)

\* C10 where every stored text was a string: the same chain, which holds.
C10_AmongStrings ==
    (\A i \in 1..Len(file.versions) : file.versions[i].newLength.t = "number")
        => C10_LengthChain

====
